---- MODULE Spec2Model ----
(***************************************************************************)
(* Model of the three chart plugins of the repository:                     *)
(*   "treemap"  src/unnamed/part_000     (d3 treemap, getDataModel)        *)
(*   "matrix"   src/main.js lines 1-211  (chart.js matrix)                 *)
(*   "heatmap"  src/main.js lines 213-329 (DOM heatmap, calculateMetrics)  *)
(* JavaScript values are modelled as tagged records so that undefined,     *)
(* NaN, Infinity, exact rationals and strings stay distinguishable.        *)
(***************************************************************************)
EXTENDS Integers, Sequences, FiniteSets, TLC

VARIABLES
    variant,     \* which of the three plugins is loaded
    domOk,       \* whether the page holds the element the plugin draws into
    chartModel,  \* what ctx.getChartModel() returns at the moment
    awaited,     \* per attempt: the chart model an awaiting render was handed
    derived,     \* the latest derivation: its argument and what it handed back
    pc,          \* per attempt: idle, render, settled, done
    outcome,     \* per attempt: how render ended
    promise,     \* per attempt: the state of the promise renderChart returned
    events,      \* the lifecycle events emitted to the host, in order
    container    \* the cells in the visual container

vars == <<variant, domOk, chartModel, awaited, derived, pc, outcome, promise, events, container>>

(***************************************************************************)
(* Bounds of the model.                                                    *)
(***************************************************************************)
MaxRows == 2

MaxExtra == 1

MaxAttempts == 2

(***************************************************************************)
(* JavaScript values.                                                      *)
(***************************************************************************)
Undefined == [t |-> "undefined", n |-> 0, d |-> 1, s |-> ""]

NaN == [t |-> "nan", n |-> 0, d |-> 1, s |-> ""]

Inf(sign) == [t |-> "inf", n |-> sign, d |-> 1, s |-> ""]

Str(s) == [t |-> "string", n |-> 0, d |-> 1, s |-> s]

Abs(i) == IF i < 0 THEN -i ELSE i

Sign(i) == IF i < 0 THEN -1 ELSE IF i > 0 THEN 1 ELSE 0

RECURSIVE GCD(_, _)
GCD(a, b) == IF b = 0 THEN a ELSE GCD(b, a % b)

\* The rational n/d (d # 0) in lowest terms with a positive denominator.
Rat(n, d) ==
    LET g == GCD(Abs(n), Abs(d))
        sg == IF d < 0 THEN -1 ELSE 1
    IN  [t |-> "number", n |-> sg * (n \div g), d |-> Abs(d) \div g, s |-> ""]

Num(i) == Rat(i, 1)

\* ToNumber: undefined -> NaN; every string of the model is a non-numeric
\* category name or the result of toFixed, neither is an operand of arithmetic
\* except a category name, which converts to NaN.
ToNumber(x) == IF x.t \in {"number", "nan", "inf"} THEN x ELSE NaN

\* ToBoolean: undefined, 0, NaN and "" are falsy.
Truthy(x) ==
    CASE x.t = "undefined" -> FALSE
      [] x.t = "nan" -> FALSE
      [] x.t = "number" -> x.n # 0
      [] x.t = "string" -> x.s # ""
      [] OTHER -> TRUE

\* a || b
JsOr(a, b) == IF Truthy(a) THEN a ELSE b

\* x !== 0
StrictNeqZero(x) == ~(x.t = "number" /\ x.n = 0)

NumAdd(a, b) ==
    CASE a.t = "nan" \/ b.t = "nan" -> NaN
      [] a.t = "inf" /\ b.t = "inf" -> IF a.n = b.n THEN a ELSE NaN
      [] a.t = "inf" -> a
      [] b.t = "inf" -> b
      [] OTHER -> Rat(a.n * b.d + b.n * a.d, a.d * b.d)

NumNeg(a) ==
    CASE a.t = "nan" -> NaN
      [] a.t = "inf" -> Inf(-a.n)
      [] OTHER -> Rat(-a.n, a.d)

NumMul(a, b) ==
    CASE a.t = "nan" \/ b.t = "nan" -> NaN
      [] a.t = "inf" \/ b.t = "inf" ->
            IF Sign(a.n) * Sign(b.n) = 0 THEN NaN ELSE Inf(Sign(a.n) * Sign(b.n))
      [] OTHER -> Rat(a.n * b.n, a.d * b.d)

NumDiv(a, b) ==
    CASE a.t = "nan" \/ b.t = "nan" -> NaN
      [] a.t = "inf" /\ b.t = "inf" -> NaN
      [] a.t = "inf" -> Inf(a.n * (IF b.n < 0 THEN -1 ELSE 1))
      [] b.t = "inf" -> Num(0)
      [] b.n = 0 -> IF a.n = 0 THEN NaN ELSE Inf(Sign(a.n))
      [] OTHER -> Rat(a.n * b.d, a.d * b.n)

\* a - b, a * b, a / b: both operands go through ToNumber.
Sub(a, b) == NumAdd(ToNumber(a), NumNeg(ToNumber(b)))

Mul(a, b) == NumMul(ToNumber(a), ToNumber(b))

Div(a, b) == NumDiv(ToNumber(a), ToNumber(b))

Pad2(i) == IF i < 10 THEN "0" \o ToString(i) ELSE ToString(i)

\* Number.prototype.toFixed(2) on a non-negative rational: the nearest
\* hundredth, the larger one on a tie.
FixedAbs(n, d) ==
    LET h == (200 * n + d) \div (2 * d)
    IN  ToString(h \div 100) \o "." \o Pad2(h % 100)

\* x.toFixed(2) as a string value.
ToFixed2(x) ==
    CASE x.t = "nan" -> Str("NaN")
      [] x.t = "inf" -> Str(IF x.n < 0 THEN "-Infinity" ELSE "Infinity")
      [] x.t = "number" ->
            Str(IF x.n < 0 THEN "-" \o FixedAbs(-x.n, x.d) ELSE FixedAbs(x.n, x.d))
      [] OTHER -> Str("TypeError")

\* String(x) for the values that reach a template literal or a string +.
JsToString(x) ==
    CASE x.t = "undefined" -> "undefined"
      [] x.t = "nan" -> "NaN"
      [] x.t = "inf" -> IF x.n < 0 THEN "-Infinity" ELSE "Infinity"
      [] x.t = "string" -> x.s
      [] x.d = 1 -> ToString(x.n)
      [] OTHER -> ToString(x.n) \o "/" \o ToString(x.d)

\* a + b: string concatenation when either operand is a string.
Add(a, b) ==
    IF a.t = "string" \/ b.t = "string"
    THEN Str(JsToString(a) \o JsToString(b))
    ELSE NumAdd(ToNumber(a), ToNumber(b))

(***************************************************************************)
(* Arrays.  A JavaScript array is a sequence; element i of the array is    *)
(* element i + 1 of the sequence.                                          *)
(***************************************************************************)
\* array[i] for a number i: undefined outside the array (row[-1] included).
At(arr, i) == IF i >= 0 /\ i < Len(arr) THEN arr[i + 1] ELSE Undefined

\* array[key] for a string key: an element only when the key is the canonical
\* decimal form of an index of the array, undefined for any other property name.
JsGet(arr, key) ==
    IF \E i \in 0..(Len(arr) - 1) : ToString(i) = key
    THEN arr[(CHOOSE i \in 0..(Len(arr) - 1) : ToString(i) = key) + 1]
    ELSE Undefined

\* _.findIndex(ids, colId => id === colId): the first index, or -1.
FindIndex(ids, id) ==
    IF \E i \in 1..Len(ids) : ids[i] = id
    THEN (CHOOSE i \in 1..Len(ids) : ids[i] = id /\ \A j \in 1..(i - 1) : ids[j] # id) - 1
    ELSE -1

\* array.slice(0, k)
Slice0(arr, k) == SubSeq(arr, 1, IF Len(arr) < k THEN Len(arr) ELSE k)

RECURSIVE SumFrom(_, _, _)
\* values.reduce((sum, value) => sum + value, acc), from element i on.
SumFrom(values, i, acc) ==
    IF i > Len(values) THEN acc ELSE SumFrom(values, i + 1, Add(acc, values[i]))

(***************************************************************************)
(* Columns and the shapes of a chart model.                                *)
(***************************************************************************)
TopN == 10

Letters == <<"A", "B", "C", "D", "E", "F", "G", "H", "I", "J", "K", "L", "M", "N">>

\* A hole in a column list ([attributeColumns[0]] with no attribute column).
NoColumn == [id |-> "", name |-> "", type |-> "undefined"]

\* The three mapped columns under an identifier scheme: opaque identifiers, or
\* identifiers that happen to be the decimal strings "0", "1", "2".
ColCategory(scheme) ==
    [id |-> IF scheme = "index" THEN "0" ELSE "c", name |-> "Category", type |-> "ATTRIBUTE"]

ColValue(scheme) ==
    [id |-> IF scheme = "index" THEN "1" ELSE "v", name |-> "Gross Margin", type |-> "MEASURE"]

ColPrior(scheme) ==
    [id |-> IF scheme = "index" THEN "2" ELSE "p", name |-> "Gross Margin LY", type |-> "MEASURE"]

Schemes == {"guid", "index"}

RoleColumns(scheme) == <<ColCategory(scheme), ColValue(scheme), ColPrior(scheme)>>

\* Column orders of a tabular result: role positions (1 category, 2 value,
\* 3 prior) in the order the result lists them.
ColumnOrders == {<<1, 2, 3>>, <<3, 1, 2>>}

Permute(triple, order) == [i \in 1..Len(order) |-> triple[order[i]]]

Ids(cols) == [i \in 1..Len(cols) |-> cols[i].id]

CurrentValues == {Num(-50), Num(0), Num(50), Num(100)}

PriorValues == {Undefined, Num(0), Num(30)}

\* The rows of a table in role order <<name, value, prior>>; row i is named
\* by the i-th letter.
RoleRowsOfLen(k) ==
    {[i \in 1..k |-> <<Str(Letters[i]), f[i][1], f[i][2]>>] :
        f \in [1..k -> CurrentValues \X PriorValues]}

ShortRoleRows == UNION {RoleRowsOfLen(k) : k \in 0..MaxRows}

\* Tables longer than the top-N cut: ascending, descending and tied values.
LongRoleRows ==
    UNION {{[i \in 1..k |-> <<Str(Letters[i]), Num(10 * i), Num(30)>>],
            [i \in 1..k |-> <<Str(Letters[i]), Num(10 * (k - i)), Num(30)>>],
            [i \in 1..k |-> <<Str(Letters[i]), Num(50 * (i % 2)), Num(0)>>]} :
           k \in (TopN + 1)..(TopN + MaxExtra)}

NoTable == [kind |-> "undefined", columns |-> <<>>, dataValue |-> <<>>]

\* data[0].data as the SDK's DataPointsArray {columns, dataValue}.
PointsTable(scheme, order, roleRows) ==
    [kind |-> "object",
     columns |-> Ids(Permute(RoleColumns(scheme), order)),
     dataValue |-> [i \in 1..Len(roleRows) |-> Permute(roleRows[i], order)]]

\* data[0].data as a plain array of rows (what calculateMetrics iterates); the
\* columns field records the result's identifier sequence, which an array
\* does not carry and the code never reads.
ArrayTable(scheme, order, roleRows) ==
    [PointsTable(scheme, order, roleRows) EXCEPT !.kind = "array"]

NoData == [kind |-> "undefined", items |-> <<>>]

DataOf(items) == [kind |-> "array", items |-> items]

Dimension(key, columns) == [key |-> key, columns |-> columns]

NoConfig == [kind |-> "undefined", chartConfig |-> [kind |-> "undefined", items |-> <<>>]]

ConfigWithout == [kind |-> "object", chartConfig |-> [kind |-> "undefined", items |-> <<>>]]

ConfigOf(items) == [kind |-> "object", chartConfig |-> [kind |-> "array", items |-> items]]

ConfigOfDims(dims) == ConfigOf(<<[key |-> "default", dimensions |-> dims]>>)

NoChartModel == [kind |-> "undefined", data |-> NoData, config |-> NoConfig, columns |-> <<>>]

ChartModelOf(data, config, columns) ==
    [kind |-> "object", data |-> data, config |-> config, columns |-> columns]

(***************************************************************************)
(* lodash orderBy(records, ['value'], ['desc']): compareAscending on the    *)
(* keys, negated for 'desc', ties broken by the original index.            *)
(***************************************************************************)
LetterRank(str) ==
    IF \E i \in 1..Len(Letters) : Letters[i] = str
    THEN CHOOSE i \in 1..Len(Letters) : Letters[i] = str
    ELSE 0

\* value > other (the relational operator; every string key is a category name).
JsGreater(a, b) ==
    CASE a.t = "string" /\ b.t = "string" -> LetterRank(a.s) > LetterRank(b.s)
      [] ToNumber(a).t = "nan" \/ ToNumber(b).t = "nan" -> FALSE
      [] ToNumber(a).t = "inf" \/ ToNumber(b).t = "inf" ->
            (IF ToNumber(a).t = "inf" THEN 2 * ToNumber(a).n ELSE 0) >
            (IF ToNumber(b).t = "inf" THEN 2 * ToNumber(b).n ELSE 0)
      [] OTHER -> ToNumber(a).n * ToNumber(b).d > ToNumber(b).n * ToNumber(a).d

\* value === other
StrictEq(a, b) == a.t # "nan" /\ a = b

\* lodash compareAscending(value, other): undefined sorts after every value
\* that equals itself, NaN after everything.
CompareAscending(a, b) ==
    IF StrictEq(a, b) THEN 0
    ELSE IF \/ JsGreater(a, b)
            \/ (a.t = "undefined" /\ b.t # "nan")
            \/ a.t = "nan"
         THEN 1
         ELSE IF \/ JsGreater(b, a)
                 \/ (b.t = "undefined" /\ a.t # "nan")
                 \/ b.t = "nan"
              THEN -1
              ELSE 0

\* Whether entry a (at index ia) sorts before entry b (at index ib), descending.
BeforeDesc(a, ia, b, ib) ==
    LET c == -CompareAscending(a.value, b.value)
    IN  c < 0 \/ (c = 0 /\ ia < ib)

\* Position k of the result holds the entry that has exactly k - 1 entries
\* before it.
OrderByValueDesc(records) ==
    LET n == Len(records)
        rank(i) == Cardinality({j \in 1..n : BeforeDesc(records[j], j, records[i], i)})
    IN  [k \in 1..n |-> records[CHOOSE i \in 1..n : rank(i) = k - 1]]

(***************************************************************************)
(* Treemap variant: getDataForColumn and getDataModel.                     *)
(***************************************************************************)
\* What a derivation hands back: whether it threw, the record sequence, the
\* top-10, the total it divided by and the console.error diagnostics.
Thrown(error, log) ==
    [threw |-> TRUE, error |-> error, dataModel |-> <<>>, top10 |-> <<>>,
     totalValue |-> Undefined, log |-> log]

Returned(dataModel, top10, totalValue, log) ==
    [threw |-> FALSE, error |-> "", dataModel |-> dataModel, top10 |-> top10,
     totalValue |-> totalValue, log |-> log]

NotDerived == Returned(<<>>, <<>>, Undefined, <<>>)

\* dataArr.columns and dataArr.dataValue: undefined on a plain array, which
\* lodash's findIndex and map treat as empty.
ColumnsOf(dataArr) == IF dataArr.kind = "object" THEN dataArr.columns ELSE <<>>

DataValueOf(dataArr) == IF dataArr.kind = "object" THEN dataArr.dataValue ELSE <<>>

\* getDataForColumn(column, dataArr): the cell at the column's index in
\* dataArr.columns, for every row.  The callback reads column.id once per
\* identifier, so a hole for column throws only when there are identifiers.
GetDataForColumnThrows(column, dataArr) ==
    column.type = "undefined" /\ Len(ColumnsOf(dataArr)) > 0

GetDataForColumn(column, dataArr) ==
    LET idx == FindIndex(ColumnsOf(dataArr), column.id)
    IN  [i \in 1..Len(DataValueOf(dataArr)) |-> At(DataValueOf(dataArr)[i], idx)]

\* One record of dataArr.dataValue.map(...), lines 46-60.  percentageOfTotal
\* is the local of line 50; the code keeps it only inside the two labels.
TreemapRecord(row, xCol, yCol0, yCol1, totalValue) ==
    LET value == JsGet(row, yCol0.id)
        lyValue == JsOr(JsGet(row, yCol1.id), value)
        percentageChange ==
            IF StrictNeqZero(lyValue)
            THEN Mul(Div(Sub(value, lyValue), lyValue), Num(100))
            ELSE Num(0)
        percentageOfTotal ==
            IF StrictNeqZero(totalValue)
            THEN Mul(Div(value, totalValue), Num(100))
            ELSE Num(0)
        name == JsGet(row, xCol.id)
    IN  [name |-> name,
         value |-> value,
         lyValue |-> lyValue,
         colorValue |-> percentageChange,
         percentageOfTotal |-> percentageOfTotal,
         tooltipLabel |->
            "<b>" \o JsToString(name) \o "</b><br>Value: " \o JsToString(value)
            \o "<br>LY Value: " \o JsToString(lyValue)
            \o "<br>Change: " \o ToFixed2(percentageChange).s
            \o "%<br>% of Total: " \o ToFixed2(percentageOfTotal).s \o "%",
         dataLabel |->
            JsToString(name) \o "<br>Value: " \o JsToString(value)
            \o "<br>Change: " \o ToFixed2(percentageChange).s
            \o "%<br>% of Total: " \o ToFixed2(percentageOfTotal).s \o "%"]

\* lines 62-63 as they would be with an in-place sort of dataModel.
TreemapTop10InPlace(dataModel) ==
    [dataModel |-> OrderByValueDesc(dataModel),
     top10 |-> Slice0(OrderByValueDesc(dataModel), TopN)]

\* lines 62-63: orderBy sorts a copy, so the statement leaves dataModel as it
\* is and adds top10.
TreemapTop10(dataModel) ==
    [dataModel |-> dataModel, top10 |-> Slice0(OrderByValueDesc(dataModel), TopN)]

\* lines 44-69, once the guards have passed.
TreemapDerive(dataArr, xAxisColumns, yAxisColumns) ==
    IF GetDataForColumnThrows(yAxisColumns[1], dataArr)
    THEN Thrown("TypeError: column is undefined", <<>>)
    ELSE LET totalValue == SumFrom(GetDataForColumn(yAxisColumns[1], dataArr), 1, Num(0))
         IN  IF dataArr.kind # "object"
             THEN Thrown("TypeError: cannot read properties of undefined (reading 'map')", <<>>)
             ELSE IF Len(dataArr.dataValue) > 0
                /\ \E c \in {xAxisColumns[1], yAxisColumns[1]} : c.type = "undefined"
             THEN Thrown("TypeError: cannot read properties of undefined (reading 'id')", <<>>)
             ELSE LET dataModel ==
                          [i \in 1..Len(dataArr.dataValue) |->
                              TreemapRecord(dataArr.dataValue[i], xAxisColumns[1],
                                            yAxisColumns[1], yAxisColumns[2], totalValue)]
                      after == TreemapTop10(dataModel)
                  IN  Returned(after.dataModel, after.top10, totalValue, <<>>)

\* getDataModel(chartModel), lines 22-70.
TreemapGetDataModel(cm) ==
    IF cm.kind = "undefined" \/ cm.data.kind = "undefined"
    THEN Returned(<<>>, <<>>, Undefined, <<"No data available for the chart.">>)
    ELSE IF Len(cm.data.items) = 0
    THEN Thrown("TypeError: cannot read properties of undefined (reading 'data')", <<>>)
    ELSE IF cm.data.items[1].data.kind = "undefined"
    THEN Returned(<<>>, <<>>, Undefined, <<"No data available for the chart.">>)
    ELSE IF cm.config.kind = "object" /\ cm.config.chartConfig.kind = "array"
            /\ Len(cm.config.chartConfig.items) = 0
    THEN Thrown("TypeError: cannot read properties of undefined (reading 'dimensions')", <<>>)
    ELSE LET configDimensions ==
                 IF cm.config.kind = "undefined" \/ cm.config.chartConfig.kind = "undefined"
                 THEN <<>>
                 ELSE cm.config.chartConfig.items[1].dimensions
             dataArr == cm.data.items[1].data
         IN  IF Len(configDimensions) < 2
             THEN Thrown("TypeError: cannot read properties of undefined (reading 'columns')", <<>>)
             ELSE LET xAxisColumns == configDimensions[1].columns
                      yAxisColumns == configDimensions[2].columns
                  IN  IF Len(xAxisColumns) = 0 \/ Len(yAxisColumns) < 2
                      THEN Returned(<<>>, <<>>, Undefined,
                                    <<"Invalid column configuration. Ensure the first column is an attribute and the next two are measures.">>)
                      ELSE TreemapDerive(dataArr, xAxisColumns, yAxisColumns)

(***************************************************************************)
(* Heatmap variant: calculateMetrics and the cells renderHeatmap draws.    *)
(***************************************************************************)
Names(cols) == [i \in 1..Len(cols) |-> cols[i].name]

RECURSIVE BaseSum(_, _, _)
\* lodash baseSum: undefined results are skipped, the first defined one starts
\* the sum, and the result is undefined when there is none.
BaseSum(values, i, acc) ==
    IF i > Len(values) THEN acc
    ELSE BaseSum(values, i + 1,
                 IF values[i].t = "undefined" THEN acc
                 ELSE IF acc.t = "undefined" THEN values[i]
                 ELSE Add(acc, values[i]))

\* _.sumBy(array, iteratee): 0 for anything without a length.
SumBy(values) == IF Len(values) = 0 THEN Num(0) ELSE BaseSum(values, 1, Undefined)

\* line 279
HeatmapChange(value, valueLY) ==
    IF Truthy(valueLY)
    THEN ToFixed2(Mul(Div(Sub(value, valueLY), valueLY), Num(100)))
    ELSE Num(0)

\* line 282
HeatmapTotal(value, totalValue) == ToFixed2(Mul(Div(value, totalValue), Num(100)))

\* calculateMetrics(dataArr, chartModel), lines 265-286.
CalculateMetrics(dataArr, cm) ==
    LET grossMarginIdx == FindIndex(Names(cm.columns), "Gross Margin")
        grossMarginLYIdx == FindIndex(Names(cm.columns), "Gross Margin LY")
        categoryIdx == FindIndex(Names(cm.columns), "Category")
        rows == IF dataArr.kind = "array" THEN dataArr.dataValue ELSE <<>>
        totalValue == SumBy([i \in 1..Len(rows) |-> At(rows[i], grossMarginIdx)])
    IN  IF dataArr.kind = "object"
        THEN Thrown("TypeError: dataArr.map is not a function", <<>>)
        ELSE Returned([i \in 1..Len(rows) |->
                          [name |-> At(rows[i], categoryIdx),
                           value |-> At(rows[i], grossMarginIdx),
                           change |-> HeatmapChange(At(rows[i], grossMarginIdx),
                                                    At(rows[i], grossMarginLYIdx)),
                           total |-> HeatmapTotal(At(rows[i], grossMarginIdx), totalValue)]],
                      <<>>, totalValue, <<>>)

\* renderHeatmap, lines 232-261: one cell per category, full metrics for the
\* categories with index < 10, the name alone for the others.
HeatmapCells(categories) ==
    [i \in 1..Len(categories) |-> [name |-> categories[i].name, full |-> i - 1 < TopN]]

\* The categories renderHeatmap treats as the top 10.
HeatmapTop10(categories) ==
    [i \in 1..Len(SelectSeq(HeatmapCells(categories), LAMBDA c : c.full)) |-> categories[i]]

\* render, lines 288-298, up to the call of renderHeatmap.
HeatmapDerive(cm) ==
    IF cm.kind = "undefined"
    THEN Thrown("TypeError: cannot read properties of undefined (reading 'data')", <<>>)
    ELSE LET dataArr ==
                 IF cm.data.kind = "undefined" \/ Len(cm.data.items) = 0
                    \/ cm.data.items[1].data.kind = "undefined"
                 THEN [kind |-> "array", columns |-> <<>>, dataValue |-> <<>>]
                 ELSE cm.data.items[1].data
             r == CalculateMetrics(dataArr, cm)
         IN  IF r.threw THEN r ELSE [r EXCEPT !.top10 = HeatmapTop10(r.dataModel)]

(***************************************************************************)
(* Matrix variant: getDataModel, getColumnDataModel and what render takes  *)
(* from them.                                                              *)
(***************************************************************************)
\* getLabels(), line 51.
MatrixLabels(xAxisColumns, dataArr) ==
    GetDataForColumn(IF Len(xAxisColumns) = 0 THEN NoColumn ELSE xAxisColumns[1], dataArr)

\* lines 122-130: one data point per dataset, that is per y-axis column; a
\* dataset carries label, data, yAxisID, ..., and no name, value or change.
MatrixPoints(yAxisColumns) ==
    [i \in 1..Len(yAxisColumns) |->
        [x |-> (i - 1) % 10, y |-> (i - 1) \div 10, name |-> Undefined,
         value |-> Undefined, change |-> Undefined, totalPercentage |-> Undefined]]

\* render, lines 100-115 and 122, up to the construction of the chart.
MatrixDerive(cm) ==
    IF cm.kind = "undefined"
    THEN Thrown("TypeError: cannot read properties of undefined (reading 'config')", <<>>)
    ELSE IF cm.config.kind = "object" /\ cm.config.chartConfig.kind = "array"
            /\ Len(cm.config.chartConfig.items) = 0
    THEN Thrown("TypeError: cannot read properties of undefined (reading 'dimensions')", <<>>)
    ELSE IF cm.data.kind = "array" /\ Len(cm.data.items) = 0
    THEN Thrown("TypeError: cannot read properties of undefined (reading 'data')", <<>>)
    ELSE LET configDimensions ==
                 IF cm.config.kind = "undefined" \/ cm.config.chartConfig.kind = "undefined"
                 THEN <<>>
                 ELSE cm.config.chartConfig.items[1].dimensions
             dataArr ==
                 IF cm.data.kind = "undefined" \/ cm.data.items[1].data.kind = "undefined"
                 THEN [kind |-> "array", columns |-> <<>>, dataValue |-> <<>>]
                 ELSE cm.data.items[1].data
         IN  IF Len(configDimensions) < 2
             THEN Thrown("TypeError: cannot read properties of undefined (reading 'columns')", <<>>)
             ELSE LET xAxisColumns == configDimensions[1].columns
                      yAxisColumns == configDimensions[2].columns
                      labels == MatrixLabels(xAxisColumns, dataArr)
                  IN  IF \/ (Len(xAxisColumns) = 0 \/ xAxisColumns[1].type = "undefined")
                            /\ Len(ColumnsOf(dataArr)) > 0
                         \/ \E i \in 1..Len(yAxisColumns) : yAxisColumns[i].type = "undefined"
                      THEN Thrown("TypeError: cannot read properties of undefined (reading 'id')",
                                  <<"Render failed">>)
                      ELSE Returned(MatrixPoints(yAxisColumns), Slice0(labels, TopN),
                                    SumFrom(labels, 1, Num(0)), <<>>)

(***************************************************************************)
(* getDefaultChartConfig and the chart models a host can hand over.        *)
(***************************************************************************)
OfType(cols, type) == SelectSeq(cols, LAMBDA c : c.type = type)

\* part_000 lines 166-183: an empty configuration when the columns do not fit.
TreemapDefaultChartConfig(cols) ==
    IF Len(OfType(cols, "ATTRIBUTE")) = 0 \/ Len(OfType(cols, "MEASURE")) < 2
    THEN <<>>
    ELSE <<[key |-> "default",
            dimensions |-> <<Dimension("x", <<OfType(cols, "ATTRIBUTE")[1]>>),
                             Dimension("y", Slice0(OfType(cols, "MEASURE"), 2))>>]>>

\* main.js lines 186-199: no check; [attributeColumns[0]] may hold a hole.
MatrixDefaultChartConfig(cols) ==
    <<[key |-> "column",
       dimensions |-> <<Dimension("x", <<IF Len(OfType(cols, "ATTRIBUTE")) = 0 THEN NoColumn
                                         ELSE OfType(cols, "ATTRIBUTE")[1]>>),
                        Dimension("y", Slice0(OfType(cols, "MEASURE"), 2))>>]>>

DefaultChartConfig(v, cols) ==
    IF v = "treemap" THEN TreemapDefaultChartConfig(cols) ELSE MatrixDefaultChartConfig(cols)

\* Column lists of an answer: all three roles, no attribute, one measure only.
ColumnLists(scheme) ==
    {RoleColumns(scheme),
     <<ColValue(scheme), ColPrior(scheme)>>,
     <<ColCategory(scheme), ColValue(scheme)>>}

\* Configurations a host may hold that do not come from getDefaultChartConfig.
HostConfigs(scheme) ==
    LET x == Dimension("x", <<ColCategory(scheme)>>)
        y == Dimension("y", <<ColValue(scheme), ColPrior(scheme)>>)
    IN  {NoConfig, ConfigWithout, ConfigOfDims(<<>>), ConfigOfDims(<<x>>),
         ConfigOfDims(<<Dimension("x", <<>>), y>>),
         ConfigOfDims(<<x, Dimension("y", <<>>)>>),
         ConfigOfDims(<<x, Dimension("y", <<ColValue(scheme)>>)>>)}

ValidConfig(v, scheme) == ConfigOf(DefaultChartConfig(v, RoleColumns(scheme)))

SampleRows == <<<<Str("A"), Num(100), Num(30)>>>>

TwoSampleRows == <<<<Str("A"), Num(50), Num(0)>>, <<Str("B"), Num(100), Num(30)>>>>

Table(v, scheme, order, roleRows) ==
    IF v = "heatmap" THEN ArrayTable(scheme, order, roleRows)
    ELSE PointsTable(scheme, order, roleRows)

\* Chart models whose data and mapping are both usable.
ValidModels(v, rowSets) ==
    {ChartModelOf(DataOf(<<[data |-> Table(v, scheme, order, rr)]>>),
                  ValidConfig(v, scheme),
                  Permute(RoleColumns(scheme), IF v = "heatmap" THEN listed ELSE <<1, 2, 3>>)) :
        scheme \in (IF v = "heatmap" THEN {"guid"} ELSE Schemes),
        order \in ColumnOrders,
        listed \in (IF v = "heatmap" THEN ColumnOrders ELSE {<<1, 2, 3>>}),
        rr \in rowSets}

\* Chart models with a missing or incomplete mapping over a usable table.
BadMappingModels(v) ==
    {ChartModelOf(DataOf(<<[data |-> Table(v, "guid", <<1, 2, 3>>, SampleRows)]>>), c, cols) :
        c \in HostConfigs("guid") \cup {ConfigOf(DefaultChartConfig(v, l)) : l \in ColumnLists("guid")},
        cols \in {RoleColumns("guid")}}
    \cup {ChartModelOf(DataOf(<<[data |-> Table(v, "guid", <<1, 2, 3>>, SampleRows)]>>),
                       ValidConfig(v, "guid"), cols) :
            cols \in {<<>>, <<ColCategory("guid"), ColValue("guid")>>}}

\* Chart models with an absent tabular result, or one in the other shape.
BadDataModels(v) ==
    {NoChartModel,
     ChartModelOf(NoData, ValidConfig(v, "guid"), RoleColumns("guid")),
     ChartModelOf(DataOf(<<>>), ValidConfig(v, "guid"), RoleColumns("guid")),
     ChartModelOf(DataOf(<<[data |-> NoTable]>>), ValidConfig(v, "guid"), RoleColumns("guid")),
     ChartModelOf(DataOf(<<[data |-> Table(IF v = "heatmap" THEN "treemap" ELSE "heatmap",
                                            "guid", <<1, 2, 3>>, SampleRows)]>>),
                  ValidConfig(v, "guid"), RoleColumns("guid"))}

ChartModels(v) ==
    ValidModels(v, ShortRoleRows \cup LongRoleRows) \cup BadMappingModels(v) \cup BadDataModels(v)

\* The chart models the host switches between across render attempts.
LifecycleModels(v) ==
    {ChartModelOf(DataOf(<<[data |-> Table(v, "guid", <<1, 2, 3>>, rr)]>>),
                  ValidConfig(v, "guid"), RoleColumns("guid")) :
        rr \in {<<>>, SampleRows, TwoSampleRows}}
    \cup {NoChartModel,
          ChartModelOf(NoData, ValidConfig(v, "guid"), RoleColumns("guid")),
          ChartModelOf(DataOf(<<>>), ValidConfig(v, "guid"), RoleColumns("guid")),
          ChartModelOf(DataOf(<<[data |-> Table(v, "guid", <<1, 2, 3>>, SampleRows)]>>),
                       ConfigOf(<<>>), RoleColumns("guid"))}

(***************************************************************************)
(* render: what one call does to the container and how it ends.            *)
(***************************************************************************)
Variants == {"treemap", "matrix", "heatmap"}

Attempts == 1..MaxAttempts

\* How render ended: returned or threw, the error thrown, the number of cells
\* it drew and what it wrote with console.error.
NoOutcome == [kind |-> "none", error |-> "", drawn |-> 0, log |-> <<>>]

Threw(error, log) == [kind |-> "threw", error |-> error, drawn |-> 0, log |-> log]

ReturnedAfter(drawn, log) == [kind |-> "returned", error |-> "", drawn |-> drawn, log |-> log]

Derivation(called, input, r) == [called |-> called, input |-> input, r |-> r]

\* What render leaves behind: its outcome, the container and the derivation.
Rendered(out, cells, d) == [outcome |-> out, container |-> cells, derived |-> d]

\* d3's hierarchy(...).sum(d => d.value): +value || 0 for a leaf.
D3Value(v) == IF ToNumber(v).t = "nan" THEN Num(0) ELSE ToNumber(v)

\* root.sort((a, b) => b.value - a.value) and root.leaves(): one node per
\* record, by summed value descending, each labelled with its name.
TreemapNodes(dataModel) ==
    LET keyed == [i \in 1..Len(dataModel) |->
                     [name |-> dataModel[i].name, value |-> D3Value(dataModel[i].value)]]
        sorted == OrderByValueDesc(keyed)
    IN  [i \in 1..Len(sorted) |-> [name |-> sorted[i].name, full |-> TRUE]]

\* part_000 render, lines 73-146.
TreemapRender(cm, dom, libThrows, cells, prev) ==
    IF cm.kind = "undefined"
    THEN Rendered(ReturnedAfter(0, <<"Chart model is undefined">>), cells, prev)
    ELSE LET r == TreemapGetDataModel(cm)
             d == Derivation(TRUE, cm, r)
         IN  IF r.threw THEN Rendered(Threw(r.error, <<>>), cells, d)
             ELSE IF Len(r.dataModel) = 0
             THEN Rendered(ReturnedAfter(0, <<"No valid data to render.">>), cells, d)
             ELSE IF ~dom
             THEN Rendered(ReturnedAfter(0, <<"Container element not found">>), cells, d)
             ELSE IF libThrows THEN Rendered(Threw("d3 error", <<>>), <<>>, d)
             ELSE Rendered(ReturnedAfter(Len(r.dataModel), <<>>), TreemapNodes(r.dataModel), d)

\* main.js render, lines 100-171: getDataModel outside the try; inside it the
\* canvas is cleared before the labels are read and the chart is built.
MatrixRender(cm, dom, libThrows, cells, prev) ==
    LET r == MatrixDerive(cm)
        d == Derivation(TRUE, cm, r)
        insideTry == r.log # <<>>
    IN  IF r.threw /\ ~insideTry THEN Rendered(Threw(r.error, <<>>), cells, d)
        ELSE IF ~dom
        THEN Rendered(Threw("TypeError: cannot read properties of null (reading 'getContext')",
                            <<"Render failed">>),
                      cells, d)
        ELSE IF r.threw THEN Rendered(Threw(r.error, <<"Render failed">>), <<>>, d)
        ELSE IF libThrows THEN Rendered(Threw("chart.js error", <<"Render failed">>), <<>>, d)
        ELSE Rendered(ReturnedAfter(Len(r.dataModel), <<>>),
                      [i \in 1..Len(r.dataModel) |->
                          [name |-> r.dataModel[i].name, full |-> Len(r.top10) > 0]],
                      d)

\* main.js render and renderHeatmap, lines 228-262 and 288-298.
HeatmapRender(cm, dom, libThrows, cells, prev) ==
    LET r == HeatmapDerive(cm)
        d == Derivation(TRUE, cm, r)
    IN  IF r.threw THEN Rendered(Threw(r.error, <<>>), cells, d)
        ELSE IF ~dom
        THEN Rendered(Threw("TypeError: cannot set properties of null (setting 'innerHTML')", <<>>),
                      cells, d)
        ELSE IF libThrows /\ Len(r.dataModel) > 0
        THEN Rendered(Threw("numeral error", <<>>), <<>>, d)
        ELSE Rendered(ReturnedAfter(Len(r.dataModel), <<>>), HeatmapCells(r.dataModel), d)

Render(v, cm, dom, libThrows, cells, prev) ==
    CASE v = "treemap" -> TreemapRender(cm, dom, libThrows, cells, prev)
      [] v = "matrix" -> MatrixRender(cm, dom, libThrows, cells, prev)
      [] OTHER -> HeatmapRender(cm, dom, libThrows, cells, prev)

(***************************************************************************)
(* renderChart: try { emit RenderStart; render } catch { emit RenderError } *)
(* finally { emit RenderComplete }.                                        *)
(***************************************************************************)
Event(a, type, error) == [attempt |-> a, type |-> type, error |-> error]

\* renderChart with RenderComplete at the end of the try block instead of in
\* a finally block.
CatchWithoutFinally(a, out) ==
    [emitted |-> IF out.kind = "threw" THEN <<Event(a, "RenderError", out.error)>>
                 ELSE <<Event(a, "RenderComplete", "")>>,
     promise |-> "fulfilled"]

\* renderChart with try/finally and no catch block.
FinallyWithoutCatch(a, out) ==
    [emitted |-> <<Event(a, "RenderComplete", "")>>,
     promise |-> IF out.kind = "threw" THEN "rejected" ELSE "fulfilled"]

\* The catch and finally blocks: what is emitted once render has ended, and
\* how the promise of renderChart settles.
CatchFinally(a, out) ==
    [emitted |-> (IF out.kind = "threw" THEN <<Event(a, "RenderError", out.error)>> ELSE <<>>)
                 \o <<Event(a, "RenderComplete", "")>>,
     promise |-> "fulfilled"]

\* Only the heatmap's renderChart awaits render, so only there can a second
\* call start while an earlier one is suspended.
Suspends(v) == v = "heatmap"

Running == {a \in Attempts : pc[a] \in {"render", "settled"}}

\* The host calls renderChart: RenderStart is emitted and render is entered;
\* the heatmap's render calls ctx.getChartModel() and suspends on the await.
RenderChartStart(a) ==
    /\ pc[a] = "idle"
    /\ \A b \in 1..(a - 1) : pc[b] # "idle"
    /\ Suspends(variant) \/ Running = {}
    /\ events' = Append(events, Event(a, "RenderStart", ""))
    /\ awaited' = [awaited EXCEPT ![a] = IF Suspends(variant) THEN chartModel ELSE @]
    /\ pc' = [pc EXCEPT ![a] = "render"]
    /\ UNCHANGED <<variant, domOk, chartModel, derived, outcome, promise, container>>

\* render runs to its end (or resumes after the await and runs to its end).
RenderBody(a) ==
    /\ pc[a] = "render"
    /\ \E libThrows \in BOOLEAN :
          LET cm == IF Suspends(variant) THEN awaited[a] ELSE chartModel
              r == Render(variant, cm, domOk, libThrows, container, derived)
          IN  /\ outcome' = [outcome EXCEPT ![a] = r.outcome]
              /\ container' = r.container
              /\ derived' = r.derived
    /\ awaited' = [awaited EXCEPT ![a] = NoChartModel]
    /\ pc' = [pc EXCEPT ![a] = "settled"]
    /\ UNCHANGED <<variant, domOk, chartModel, promise, events>>

\* The rest of renderChart: catch, finally, and the promise settles.
RenderChartFinish(a) ==
    /\ pc[a] = "settled"
    /\ events' = events \o CatchFinally(a, outcome[a]).emitted
    /\ promise' = [promise EXCEPT ![a] = CatchFinally(a, outcome[a]).promise]
    /\ pc' = [pc EXCEPT ![a] = "done"]
    /\ UNCHANGED <<variant, domOk, chartModel, awaited, derived, outcome, container>>

\* The host replaces the chart model between the plugin's turns.
HostUpdate ==
    /\ Suspends(variant) \/ Running = {}
    /\ \E a \in Attempts : pc[a] = "idle"
    /\ \E cm \in LifecycleModels(variant) : cm # chartModel /\ chartModel' = cm
    /\ UNCHANGED <<variant, domOk, awaited, derived, pc, outcome, promise, events, container>>

InitRest ==
    /\ awaited = [a \in Attempts |-> NoChartModel]
    /\ derived = Derivation(FALSE, NoChartModel, NotDerived)
    /\ pc = [a \in Attempts |-> "idle"]
    /\ outcome = [a \in Attempts |-> NoOutcome]
    /\ promise = [a \in Attempts |-> "pending"]
    /\ events = <<>>
    /\ container = <<>>

\* Any sequence of render attempts while the host changes the chart model.
Init ==
    /\ variant \in Variants
    /\ domOk \in BOOLEAN
    /\ chartModel \in LifecycleModels(variant)
    /\ InitRest

Next ==
    \/ \E a \in Attempts : RenderChartStart(a)
    \/ \E a \in Attempts : RenderBody(a)
    \/ \E a \in Attempts : RenderChartFinish(a)
    \/ HostUpdate

Spec == Init /\ [][Next]_vars

\* One render of each chart model of the bounded input space.
InitDerive ==
    /\ variant \in Variants
    /\ domOk \in BOOLEAN
    /\ chartModel \in ChartModels(variant)
    /\ InitRest

NextDerive ==
    \/ RenderChartStart(1)
    \/ RenderBody(1)
    \/ RenderChartFinish(1)

SpecDerive == InitDerive /\ [][NextDerive]_vars

(***************************************************************************)
(* Properties.                                                             *)
(***************************************************************************)
EventsOf(a) == SelectSeq(events, LAMBDA e : e.attempt = a)

\* C1: every render attempt emits exactly one RenderStart before render runs,
\* exactly one RenderComplete as its last signal whether render returned or
\* threw, and a RenderError carrying the thrown error between the two if and
\* only if render threw; this holds per attempt also when attempts overlap.
C1_LifecycleSignals ==
    \A a \in Attempts :
        EventsOf(a) =
            CASE pc[a] = "idle" -> <<>>
              [] pc[a] \in {"render", "settled"} -> <<Event(a, "RenderStart", "")>>
              [] OTHER ->
                    <<Event(a, "RenderStart", "")>>
                    \o (IF outcome[a].kind = "threw"
                        THEN <<Event(a, "RenderError", outcome[a].error)>>
                        ELSE <<>>)
                    \o <<Event(a, "RenderComplete", "")>>

\* Two overlapping heatmap attempts have both finished, one after render
\* threw and one after it returned.
C1_Witness ==
    /\ variant = "heatmap"
    /\ Len(events) >= 5
    /\ events[1].attempt # events[2].attempt
    /\ \E a, b \in Attempts :
          /\ pc[a] = "done" /\ outcome[a].kind = "threw"
          /\ pc[b] = "done" /\ outcome[b].kind = "returned"

\* C2: the promise renderChart returned never rejects; when render threw, the
\* attempt ends fulfilled with the error surfaced as a RenderError event.
C2_RenderFailureSurfaced ==
    \A a \in Attempts :
        /\ promise[a] # "rejected"
        /\ (pc[a] = "done" /\ outcome[a].kind = "threw") =>
              /\ promise[a] = "fulfilled"
              /\ \E i \in 1..Len(events) :
                    events[i] = Event(a, "RenderError", outcome[a].error)

\* The matrix render threw inside its inner try, logged 'Render failed' and
\* re-threw; the attempt has finished.
C2_Witness ==
    /\ variant = "matrix"
    /\ \E a \in Attempts :
          /\ pc[a] = "done"
          /\ outcome[a].kind = "threw"
          /\ outcome[a].log = <<"Render failed">>
          /\ promise[a] = "fulfilled"

\* The latest derivation ran the per-row mapping to its end.
Passed == derived.called /\ ~derived.r.threw /\ derived.r.log = <<>>

HasTable(cm) ==
    /\ cm.kind = "object"
    /\ cm.data.kind = "array"
    /\ Len(cm.data.items) > 0
    /\ cm.data.items[1].data.kind # "undefined"

\* The rows and the column identifier sequence of the tabular result.
InputRows == IF HasTable(derived.input) THEN derived.input.data.items[1].data.dataValue ELSE <<>>

InputColumnIds == IF HasTable(derived.input) THEN derived.input.data.items[1].data.columns ELSE <<>>

\* The identifier the mapping gives a role: through the chart configuration
\* in the treemap, through the column names in the heatmap; "" when unmapped.
MappedId(role) ==
    LET cm == derived.input
        named == CASE role = "category" -> "Category"
                   [] role = "value" -> "Gross Margin"
                   [] OTHER -> "Gross Margin LY"
        dims == cm.config.chartConfig.items[1].dimensions
    IN  IF variant = "heatmap"
        THEN IF FindIndex(Names(cm.columns), named) < 0 THEN ""
             ELSE cm.columns[FindIndex(Names(cm.columns), named) + 1].id
        ELSE CASE role = "category" -> dims[1].columns[1].id
               [] role = "value" -> dims[2].columns[1].id
               [] OTHER -> dims[2].columns[2].id

\* The cell of row i under the column that carries the role.
RoleCell(i, role) == At(InputRows[i], FindIndex(InputColumnIds, MappedId(role)))

\* The fields read by the code are the cells of the roles: the result lists
\* its columns so that the variant's own lookup hits them.
Aligned ==
    /\ Len(InputRows) > 0
    /\ \A i \in 1..Len(derived.r.dataModel) :
          /\ i <= Len(InputRows)
          /\ derived.r.dataModel[i].name = RoleCell(i, "category")
          /\ derived.r.dataModel[i].value = RoleCell(i, "value")
          /\ derived.r.dataModel[i].name.t = "string"
          /\ derived.r.dataModel[i].value.t = "number"

DerivesMetrics == variant \in {"treemap", "heatmap"}

\* C8: the primary record set has exactly one record per input row, in input
\* row order (record i carries the category of row i), also after the top-10
\* subset has been computed from it.
C8_RecordsKeepRowOrder ==
    (DerivesMetrics /\ Passed) =>
        /\ Len(derived.r.dataModel) = Len(InputRows)
        /\ \A i \in 1..Len(derived.r.dataModel) :
              derived.r.dataModel[i].name.t = "string" =>
                  derived.r.dataModel[i].name = Str(Letters[i])

\* The treemap derived records from more than ten rows in ascending order of
\* value and returned a top-10 that starts with the last row.
C8_Witness ==
    /\ variant = "treemap"
    /\ Passed
    /\ Len(derived.r.dataModel) > TopN
    /\ Len(derived.r.top10) = TopN
    /\ derived.r.dataModel[1].name = Str("A")
    /\ derived.r.top10[1].name = Str(Letters[Len(derived.r.dataModel)])

\* The column role mapping of a chart model is missing or incomplete: no
\* chart config, no dimensions, no category column, or fewer than two
\* measure columns.
MappingIncomplete(cm) ==
    \/ cm.config.kind = "undefined"
    \/ cm.config.chartConfig.kind = "undefined"
    \/ Len(cm.config.chartConfig.items) = 0
    \/ LET dims == cm.config.chartConfig.items[1].dimensions
       IN  \/ Len(dims) < 2
           \/ Len(dims[1].columns) = 0
           \/ Len(dims[2].columns) < 2

\* C3: when the column role mapping is missing or incomplete, getDataModel
\* returns an empty record sequence and an empty top-10 with a diagnostic,
\* and does not raise an exception.
C3_IncompleteMappingYieldsEmpty ==
    (variant = "treemap" /\ derived.called /\ HasTable(derived.input)
     /\ MappingIncomplete(derived.input)) =>
        /\ ~derived.r.threw
        /\ derived.r.dataModel = <<>>
        /\ derived.r.top10 = <<>>
        /\ derived.r.log # <<>>

\* The tabular result of a chart model is absent or empty.
TabularAbsent(cm) ==
    \/ ~HasTable(cm)
    \/ Len(cm.data.items[1].data.dataValue) = 0

\* C4: when the tabular result is absent or empty, getDataModel reports an
\* empty record sequence and a diagnostic is logged, without throwing, so
\* that render returns having drawn nothing.
C4_AbsentDataYieldsEmpty ==
    (variant = "treemap" /\ derived.called /\ pc[1] \in {"settled", "done"}
     /\ TabularAbsent(derived.input) /\ ~MappingIncomplete(derived.input)) =>
        /\ ~derived.r.threw
        /\ derived.r.dataModel = <<>>
        /\ derived.r.log # <<>> \/ outcome[1].log # <<>>
        /\ outcome[1].kind = "returned"

\* The percent change of record i as the variant keeps it.
ChangeOf(i) ==
    IF variant = "treemap" THEN derived.r.dataModel[i].colorValue
    ELSE derived.r.dataModel[i].change

\* C5: for every row, a prior-year value that is 0 or absent gives a percent
\* change of 0 (never NaN or Infinity); any other prior-year value gives
\* (value - priorValue) / priorValue * 100, as a number or in its two-decimal
\* display form.
C5_PercentChange ==
    (DerivesMetrics /\ Passed) =>
        \A i \in 1..Len(derived.r.dataModel) :
            i <= Len(InputRows) =>
                LET value == RoleCell(i, "value")
                    priorValue == RoleCell(i, "prior")
                    exact == Mul(Div(Sub(value, priorValue), priorValue), Num(100))
                IN  IF Truthy(priorValue)
                    THEN ChangeOf(i) \in {exact, ToFixed2(exact)}
                    ELSE ChangeOf(i) = Num(0)

\* The sum of the current values of all rows is the number 0.
CurrentValuesSumToZero ==
    /\ Len(InputRows) > 0
    /\ \A i \in 1..Len(InputRows) : RoleCell(i, "value").t = "number"
    /\ SumFrom([i \in 1..Len(InputRows) |-> RoleCell(i, "value")], 1, Num(0)) = Num(0)

\* C6: when the current values of all rows sum to 0, every record's percent
\* of total is 0, displayed as 0.00, not NaN or Infinity.
C6_ZeroTotal ==
    (DerivesMetrics /\ Passed /\ CurrentValuesSumToZero) =>
        \A i \in 1..Len(derived.r.dataModel) :
            IF variant = "treemap"
            THEN derived.r.dataModel[i].percentageOfTotal = Num(0)
            ELSE derived.r.dataModel[i].total \in {Num(0), Str("0.00")}

\* Record a comes before record b when sorted by value descending, ties in
\* input order (a and b are positions in the record sequence).
RanksBefore(a, b) ==
    LET va == derived.r.dataModel[a].value
        vb == derived.r.dataModel[b].value
    IN  JsGreater(va, vb) \/ (va = vb /\ a < b)

\* The position in the record sequence of the j-th category of the top-10.
Top10Position(j) == LetterRank(derived.r.top10[j].name.s)

\* C7: the categories treated as the top-10 are records of the full record
\* set, min(10, recordCount) of them, and they are the records with the
\* highest current value; where the top-10 is returned as a sequence it is
\* ordered descending by value with ties in input order.
C7_Top10 ==
    (DerivesMetrics /\ Passed /\ Aligned) =>
        LET n == Len(derived.r.dataModel)
            k == Len(derived.r.top10)
            chosen == {Top10Position(j) : j \in 1..k}
        IN  /\ k = IF n < TopN THEN n ELSE TopN
            /\ \A j \in 1..k :
                  /\ Top10Position(j) \in 1..n
                  /\ derived.r.dataModel[Top10Position(j)] = derived.r.top10[j]
            /\ Cardinality(chosen) = k
            /\ \A a \in chosen : \A b \in (1..n) \ chosen : RanksBefore(a, b)
            /\ variant = "treemap" =>
                  \A i, j \in 1..k : i < j => RanksBefore(Top10Position(i), Top10Position(j))

\* The most recent render attempt has finished.
MostRecentDone(a) == pc[a] = "done" /\ \A b \in Attempts : b > a => pc[b] = "idle"

\* No attempt started before every earlier attempt had emitted RenderComplete.
Sequential ==
    \A i \in 1..Len(events) :
        events[i].type = "RenderStart" =>
            \A j \in 1..(i - 1) :
                \E k \in j..(i - 1) :
                    events[k] = Event(events[j].attempt, "RenderComplete", "")

\* C9: after any sequence of render attempts, one after the other, when the
\* most recent attempt threw or drew nothing, the visual container is empty.
C9_FailedRenderLeavesEmptyVisual ==
    \A a \in Attempts :
        (Sequential /\ MostRecentDone(a)
         /\ (outcome[a].kind = "threw" \/ outcome[a].drawn = 0)) =>
            container = <<>>

\* C10: the category, the current value and the prior-year value of every
\* record are the cells of its row at the index where the mapped column's
\* identifier occurs in the result's column identifier sequence (the
\* treemap's prior value falling back to the current value when falsy).
C10_FieldsReadByIdentifier ==
    (DerivesMetrics /\ Passed) =>
        \A i \in 1..Len(derived.r.dataModel) :
            i <= Len(InputRows) =>
                /\ derived.r.dataModel[i].name = RoleCell(i, "category")
                /\ derived.r.dataModel[i].value = RoleCell(i, "value")
                /\ variant = "treemap" =>
                      derived.r.dataModel[i].lyValue =
                          JsOr(RoleCell(i, "prior"), RoleCell(i, "value"))

\* Every row of the tabular result has a number in the column mapped as the
\* current value, and render got as far as the total (the matrix variant
\* computes it after canvas.getContext, main.js lines 110-113).
CurrentValuesAreNumbers ==
    /\ Len(InputRows) > 0
    /\ variant = "matrix" => domOk
    /\ variant = "heatmap" \/ ~MappingIncomplete(derived.input)
    /\ \A i \in 1..Len(InputRows) : RoleCell(i, "value").t = "number"

\* The current-value field of the derived records, where it is a number in
\* every record; the empty sequence where the variant keeps no such field.
RecordValues ==
    IF /\ DerivesMetrics
       /\ \A i \in 1..Len(derived.r.dataModel) : derived.r.dataModel[i].value.t = "number"
    THEN [i \in 1..Len(derived.r.dataModel) |-> derived.r.dataModel[i].value]
    ELSE <<>>

====
